---- MODULE Spec2Model ----
(***************************************************************************)
(* A model of the pattern generator, viewport compositor and renderer      *)
(* state of src/src/main.rs (struct ImageRenderer), and of the AppDelegate *)
(* callbacks that drive it.                                                *)
(*                                                                         *)
(* Representation.                                                         *)
(*  - A Vec<u8> RGBA buffer is the sequence of its pixels, each the        *)
(*    quadruple <<r, g, b, a>>: byte 4p+c of the vector is component c+1   *)
(*    of pixel p (0-based), which is element p+1 of the sequence.  Every   *)
(*    access of the source is at idx..idx+3 with                           *)
(*    idx = y*bytes_per_row + x*4 and bytes_per_row = width*4, so          *)
(*    idx \div 4 = y*width + x.                                            *)
(*  - Option<T> is a sequence of length 0 (None) or 1 (Some).              *)
(*  - A String is a sequence of one-character strings.                     *)
(*  - f64 values are exact rationals: zoom in tenths, pan as an integer.   *)
(*    On the inputs drawn here (zoom in {0.1, 0.5, 1, 2, 10}, |pan| and    *)
(*    pixel coordinates below 2^24) the IEEE-754 double products of the    *)
(*    source have the same integer part as the exact quotients.            *)
(*  - usize is a machine word of UsizeBits bits.  Subtraction and addition *)
(*    that can leave the range report it: a build with overflow checks     *)
(*    (debug) panics there, a build without (release) wraps.               *)
(***************************************************************************)
EXTENDS Integers, Sequences, FiniteSets, TLC

(***************************************************************************)
(* Bounds of the model.                                                    *)
(***************************************************************************)
\* width of the model's machine word (usize), in bits
UsizeBits == 20
\* the largest viewport, in pixels, that Render is asked to fill in Spec
MaxViewportPixels == 3400
\* the largest viewport, in pixels, that Render is asked to fill in RenderSpec
MaxRenderPixels == 24000

\* the source the callbacks construct (800 x 600 in the program), reduced
AppWidth == 396
AppHeight == 80
\* the largest |pan| a drag is allowed to reach
MaxPan == 5
\* the number of callbacks the run loop delivers
MaxCallbacks == 3

UsizeMod == 2 ^ UsizeBits
UsizeMax == UsizeMod - 1

None == << >>
Some(v) == << v >>
IsSome(o) == Len(o) = 1
Unwrap(o) == o[1]

Min(a, b) == IF a < b THEN a ELSE b
Max(a, b) == IF a > b THEN a ELSE b

(***************************************************************************)
(* `v as usize` for the f64 value num/den (den > 0): the integer part,     *)
(* saturated to [0, usize::MAX].                                           *)
(***************************************************************************)
F64AsUsize(num, den) ==
    IF num <= 0 THEN 0 ELSE Min(num \div den, UsizeMax)

(***************************************************************************)
(* `v as u8` for the f64 value num/den (den > 0, num >= 0).                *)
(***************************************************************************)
F64AsU8(num, den) ==
    IF num <= 0 THEN 0 ELSE Min(num \div den, 255)

\* usize addition and subtraction without overflow checks (wrapping)
WrappingAdd(a, b) == (a + b) % UsizeMod
WrappingSub(a, b) == (a - b) % UsizeMod
AddOverflows(a, b) == a + b > UsizeMax
SubOverflows(a, b) == a < b

(***************************************************************************)
(* Pixel index of the RGBA quadruple written at byte                       *)
(* idx = y * bytes_per_row + x * 4.                                        *)
(***************************************************************************)
PixelIndex(x, y, bytes_per_row) == (y * bytes_per_row + x * 4) \div 4

(***************************************************************************)
(* Pixel p is written by                                                   *)
(*     for y in y0..y0+ny { for x in x0..x0+nx { idx = y*bytes_per_row + x*4 } } *)
(* when some row y of the loop has p - y*(bytes_per_row/4) in x0..x0+nx-1; *)
(* the rows that qualify are an interval, computed here in closed form.    *)
(***************************************************************************)
CeilDiv(a, b) == -((-a) \div b)

LoopWrites(p, bytes_per_row, x0, nx, y0, ny) ==
    LET row == bytes_per_row \div 4
    IN  /\ nx > 0
        /\ ny > 0
        /\ IF row = 0
           THEN p >= x0 /\ p <= x0 + nx - 1
           ELSE Max(y0, CeilDiv(p - x0 - nx + 1, row)) <= Min(y0 + ny - 1, (p - x0) \div row)

\* the set S, enumerated and sorted once so that membership in it is a search
SetOf(S) == IF Cardinality(S) = 0 THEN {} ELSE S

\* the sequence f (a function on 1 .. n) held as a vector
Vec(f) == << >> \o f

\* pixel p (0-based) of a buffer
Pixel(buffer, p) == buffer[p + 1]

\* vec![0; buffer_size]
ZeroBuffer(buffer_size) == Vec([i \in 1 .. (buffer_size \div 4) |-> <<0, 0, 0, 0>>])

\* buffer.len(), in bytes
BufferLen(buffer) == 4 * Len(buffer)

(***************************************************************************)
(* generate_checkerboard                                                   *)
(***************************************************************************)
square_size == 20

\* a variant of generate_checkerboard whose squares alternate along x only
generate_checkerboard_striped(buffer, width, height, bytes_per_row) ==
    Vec([i \in 1 .. Len(buffer) |->
        LET color == IF (((i - 1) % width) \div square_size) % 2 = 0 THEN 255 ELSE 0
        IN  <<color, color, color, 255>>])

generate_checkerboard(buffer, width, height, bytes_per_row) ==
    Vec([i \in 1 .. Len(buffer) |->
        IF LoopWrites(i - 1, bytes_per_row, 0, width, 0, height)
        THEN LET x == (i - 1) % width
                 y == (i - 1) \div width
                 is_white == ((x \div square_size) + (y \div square_size)) % 2 = 0
                 color == IF is_white THEN 255 ELSE 0
             IN  <<color, color, color, 255>>
        ELSE buffer[i]])

(***************************************************************************)
(* generate_gradient                                                       *)
(***************************************************************************)
\* a variant of generate_gradient that rounds the red and green channels to
\* the nearest integer
generate_gradient_rounded(buffer, width, height, bytes_per_row) ==
    Vec([i \in 1 .. Len(buffer) |->
        LET x == (i - 1) % width
            y == (i - 1) \div width
        IN  << (2 * x * 255 + width) \div (2 * width),
               (2 * y * 255 + height) \div (2 * height), 200, 255 >>])

generate_gradient(buffer, width, height, bytes_per_row) ==
    Vec([i \in 1 .. Len(buffer) |->
        IF LoopWrites(i - 1, bytes_per_row, 0, width, 0, height)
        THEN LET x == (i - 1) % width
                 y == (i - 1) \div width
                 r == F64AsU8(x * 255, width)
                 g == F64AsU8(y * 255, height)
                 b == 200
             IN  <<r, g, b, 255>>
        ELSE buffer[i]])

(***************************************************************************)
(* The 5x5 bitmap font of generate_text: `characters` and `char_map`.      *)
(* characters[k+1] is the source's characters[k]; a glyph is five rows of  *)
(* five cells.                                                             *)
(***************************************************************************)
characters ==
  << << <<0,1,1,1,0>>, <<1,0,0,0,0>>, <<1,0,0,0,0>>, <<1,0,0,0,0>>, <<0,1,1,1,0>> >>,
     << <<0,1,1,1,0>>, <<1,0,0,0,1>>, <<1,0,0,0,1>>, <<1,0,0,0,1>>, <<0,1,1,1,0>> >>,
     << <<1,0,0,0,1>>, <<1,1,0,1,1>>, <<1,0,1,0,1>>, <<1,0,0,0,1>>, <<1,0,0,0,1>> >>,
     << <<0,1,1,1,0>>, <<0,0,1,0,0>>, <<0,0,1,0,0>>, <<0,0,1,0,0>>, <<0,1,1,1,0>> >>,
     << <<1,0,0,0,1>>, <<1,1,0,0,1>>, <<1,0,1,0,1>>, <<1,0,0,1,1>>, <<1,0,0,0,1>> >>,
     << <<0,1,1,1,0>>, <<1,0,0,0,0>>, <<1,0,1,1,0>>, <<1,0,0,0,1>>, <<0,1,1,1,0>> >>,
     << <<0,1,1,1,0>>, <<1,0,0,0,0>>, <<0,1,1,1,0>>, <<0,0,0,0,1>>, <<0,1,1,1,0>> >>,
     << <<1,1,1,1,0>>, <<1,0,0,0,1>>, <<1,1,1,1,0>>, <<1,0,0,0,0>>, <<1,0,0,0,0>> >>,
     << <<0,0,1,1,0>>, <<0,0,0,1,0>>, <<0,0,0,1,0>>, <<1,0,0,1,0>>, <<0,1,1,0,0>> >>,
     << <<0,1,1,1,0>>, <<1,0,0,0,1>>, <<0,0,1,1,0>>, <<0,1,0,0,0>>, <<1,1,1,1,1>> >>,
     << <<0,0,0,0,0>>, <<0,0,0,0,0>>, <<0,0,0,0,0>>, <<0,0,0,0,0>>, <<0,0,0,0,0>> >>,
     << <<1,1,1,1,1>>, <<1,0,0,0,0>>, <<1,1,1,1,0>>, <<1,0,0,0,0>>, <<1,0,0,0,0>> >>,
     << <<1,0,0,0,0>>, <<1,0,0,0,0>>, <<1,0,0,0,0>>, <<1,0,0,0,0>>, <<1,1,1,1,1>> >>,
     << <<1,1,1,1,1>>, <<1,0,0,0,0>>, <<1,1,1,1,0>>, <<1,0,0,0,0>>, <<1,1,1,1,1>> >>,
     << <<1,1,1,1,0>>, <<1,0,0,0,1>>, <<1,0,0,0,1>>, <<1,0,0,0,1>>, <<1,1,1,1,0>> >>,
     << <<1,1,1,1,1>>, <<0,0,1,0,0>>, <<0,0,1,0,0>>, <<0,0,1,0,0>>, <<0,0,1,0,0>> >>,
     << <<0,1,1,1,0>>, <<1,0,0,0,1>>, <<1,1,1,1,1>>, <<1,0,0,0,1>>, <<1,0,0,0,1>> >>,
     << <<1,1,1,1,0>>, <<1,0,0,0,1>>, <<1,1,1,1,0>>, <<1,0,1,0,0>>, <<1,0,0,1,0>> >>,
     << <<1,1,1,1,0>>, <<1,0,0,0,1>>, <<1,1,1,1,0>>, <<1,0,0,0,1>>, <<1,1,1,1,0>> >>,
     << <<0,1,1,1,0>>, <<1,0,0,0,1>>, <<1,0,0,0,1>>, <<1,0,0,0,1>>, <<0,1,1,1,0>> >>,
     << <<0,0,1,0,0>>, <<0,1,1,0,0>>, <<0,0,1,0,0>>, <<0,0,1,0,0>>, <<0,1,1,1,0>> >>,
     << <<0,1,1,1,0>>, <<0,0,0,0,1>>, <<0,1,1,1,0>>, <<0,0,0,0,1>>, <<0,1,1,1,0>> >>,
     << <<1,0,0,0,1>>, <<1,0,0,0,1>>, <<1,1,1,1,1>>, <<0,0,0,0,1>>, <<0,0,0,0,1>> >>,
     << <<1,1,1,1,1>>, <<1,0,0,0,0>>, <<1,1,1,1,0>>, <<0,0,0,0,1>>, <<1,1,1,1,0>> >>,
     << <<0,1,1,1,0>>, <<1,0,0,0,0>>, <<1,1,1,1,0>>, <<1,0,0,0,1>>, <<0,1,1,1,0>> >>,
     << <<1,1,1,1,1>>, <<0,0,0,0,1>>, <<0,0,0,1,0>>, <<0,0,1,0,0>>, <<0,1,0,0,0>> >>,
     << <<0,1,1,1,0>>, <<1,0,0,0,1>>, <<0,1,1,1,0>>, <<1,0,0,0,1>>, <<0,1,1,1,0>> >>,
     << <<0,1,1,1,0>>, <<1,0,0,0,1>>, <<0,1,1,1,1>>, <<0,0,0,0,1>>, <<0,1,1,1,0>> >>,
     << <<0,0,0,0,0>>, <<0,0,0,0,0>>, <<1,1,1,1,1>>, <<0,0,0,0,0>>, <<0,0,0,0,0>> >>,
     << <<0,0,0,0,0>>, <<0,0,0,0,0>>, <<0,0,0,0,0>>, <<0,0,0,0,0>>, <<0,0,1,0,0>> >> >>

char_map ==
    "C" :> 0 @@ "O" :> 1 @@ "M" :> 2 @@ "I" :> 3 @@ "N" :> 4 @@ "G" :> 5 @@
    "S" :> 6 @@ "P" :> 7 @@ "J" :> 8 @@ "2" :> 9 @@ " " :> 10 @@ "F" :> 11 @@
    "L" :> 12 @@ "E" :> 13 @@ "D" :> 14 @@ "T" :> 15 @@ "A" :> 16 @@ "R" :> 17 @@
    "B" :> 18 @@ "0" :> 19 @@ "1" :> 20 @@ "3" :> 21 @@ "4" :> 22 @@ "5" :> 23 @@
    "6" :> 24 @@ "7" :> 25 @@ "8" :> 26 @@ "9" :> 27 @@ "-" :> 28 @@ "." :> 29

\* the index `unwrap_or` falls back to: the space glyph
SpaceGlyphIndex == 10

\* char_map.get(&c).copied().unwrap_or(10)
GlyphIndex(c) == IF c \in DOMAIN char_map THEN char_map[c] ELSE SpaceGlyphIndex

(***************************************************************************)
(* Strings.  A character is a one-character string; a character outside    *)
(* ASCII is written by its code point ("U+00E9") and takes two bytes in    *)
(* UTF-8.  str::len counts bytes, chars() counts characters.               *)
(***************************************************************************)
TwoByteChars == {"U+00E9", "U+00C9"}

Utf8Len(c) == IF c \in TwoByteChars THEN 2 ELSE 1

RECURSIVE StrLen(_)
StrLen(s) == IF s = << >> THEN 0 ELSE Utf8Len(Head(s)) + StrLen(Tail(s))

LowerToUpper ==
    "a" :> "A" @@ "b" :> "B" @@ "c" :> "C" @@ "d" :> "D" @@ "e" :> "E" @@
    "f" :> "F" @@ "g" :> "G" @@ "h" :> "H" @@ "i" :> "I" @@ "j" :> "J" @@
    "k" :> "K" @@ "l" :> "L" @@ "m" :> "M" @@ "n" :> "N" @@ "o" :> "O" @@
    "p" :> "P" @@ "q" :> "Q" @@ "r" :> "R" @@ "s" :> "S" @@ "t" :> "T" @@
    "u" :> "U" @@ "v" :> "V" @@ "w" :> "W" @@ "x" :> "X" @@ "y" :> "Y" @@
    "z" :> "Z" @@ "U+00E9" :> "U+00C9"

\* a variant of to_uppercase that leaves the text as it is
to_uppercase_as_is(s) == s

\* str::to_uppercase
to_uppercase(s) ==
    [i \in 1 .. Len(s) |-> IF s[i] \in DOMAIN LowerToUpper THEN LowerToUpper[s[i]] ELSE s[i]]

\* the characters of s that lie wholly in bytes [0, n)
RECURSIVE CharsWithin(_, _)
CharsWithin(s, n) ==
    IF s = << >> \/ Utf8Len(Head(s)) > n THEN << >>
    ELSE << Head(s) >> \o CharsWithin(Tail(s), n - Utf8Len(Head(s)))

\* &s[0..n] panics unless byte n is a character boundary
SliceIsCharBoundary(s, n) == StrLen(CharsWithin(s, n)) = n

\* "COMING SOON" and "FILE SELECTED" and the "..." of format!("{}...", _)
ComingSoon == <<"C", "O", "M", "I", "N", "G", " ", "S", "O", "O", "N">>
FileSelected == <<"F", "I", "L", "E", " ", "S", "E", "L", "E", "C", "T", "E", "D">>
Ellipsis == <<".", ".", ".">>

(***************************************************************************)
(* draw_text.  The result is the buffer after the call and whether some    *)
(* usize addition of the call left the word range.  The additions are      *)
(* computed wrapped, which is what a build without overflow checks does;   *)
(* a build with them panics when `overflow` is set.                        *)
(***************************************************************************)
draw_text(buffer, width, height, bytes_per_row, text, start_x, start_y, char_width, char_height, char_padding, color) ==
    LET scale_x == char_width \div 5
        scale_y == char_height \div 5
        char_x(i) == WrappingAdd(start_x, i * (char_width + char_padding))
        \* the glyph cells (character i, y_idx, x_idx) with pixel == 1
        ink == { c \in (0 .. (Len(text) - 1)) \X (0 .. 4) \X (0 .. 4) :
                    characters[GlyphIndex(text[c[1] + 1]) + 1][c[2] + 1][c[3] + 1] = 1 }
        offs == (0 .. (scale_y - 1)) \X (0 .. (scale_x - 1))
        px(c, o) == WrappingAdd(char_x(c[1]), c[3] * scale_x + o[2])
        py(c, o) == WrappingAdd(start_y, c[2] * scale_y + o[1])
        \* pixels painted for one ink cell: those that pass both bounds checks
        len == BufferLen(buffer)
        block(c) == { PixelIndex(px(c, o), py(c, o), bytes_per_row) :
                        o \in { q \in offs :
                                  /\ ~(px(c, q) >= width \/ py(c, q) >= height)
                                  /\ PixelIndex(px(c, q), py(c, q), bytes_per_row) * 4 + 3
                                        < len } }
        painted == SetOf(UNION { block(c) : c \in ink })
        overflow ==
            \/ \E i \in 0 .. (Len(text) - 1) :
                   AddOverflows(start_x, i * (char_width + char_padding))
            \/ \E c \in ink : \E o \in offs :
                   \/ AddOverflows(char_x(c[1]), c[3] * scale_x + o[2])
                   \/ AddOverflows(start_y, c[2] * scale_y + o[1])
    IN  [ buffer |-> Vec([i \in 1 .. Len(buffer) |->
                            IF (i - 1) \in painted
                            THEN <<color[1], color[2], color[3], 255>>
                            ELSE buffer[i]]),
          overflow |-> overflow ]

(***************************************************************************)
(* generate_text.  `overflow`: some usize subtraction or addition left the *)
(* word range (the values are computed wrapped); `panic`: the byte slice   *)
(* &secondary_text[0..27] does not end on a character boundary.            *)
(***************************************************************************)
\* let display_text = if secondary_text.len() > 30 {
\*     format!("{}...", &secondary_text[0..27]) } else { secondary_text.to_string() }
\* (the value computed when the slice does not panic)
display_text(secondary_text) ==
    IF StrLen(secondary_text) > 30
    THEN CharsWithin(secondary_text, 27) \o Ellipsis
    ELSE secondary_text

generate_text(self, buffer, width, height, bytes_per_row) ==
    LET background ==
            Vec([i \in 1 .. Len(buffer) |->
                    IF LoopWrites(i - 1, bytes_per_row, 0, width, 0, height)
                    THEN <<230, 235, 240, 255>>
                    ELSE buffer[i]])
        primary == IF IsSome(self.primary_text) THEN Unwrap(self.primary_text)
                   ELSE ComingSoon
        char_width == 32
        char_height == 40
        char_padding == 4
        text_width == StrLen(primary) * (char_width + char_padding)
        start_x == WrappingSub(width, text_width) \div 2
        start_y == WrappingSub(height \div 2, char_height)
        has_secondary == IsSome(self.secondary_text)
        secondary_text == Unwrap(self.secondary_text)
        smaller_char_width == 16
        smaller_char_height == 20
        smaller_padding == 2
        truncated == StrLen(secondary_text) > 30
        secondary_text_width ==
            StrLen(display_text(secondary_text)) * (smaller_char_width + smaller_padding)
        secondary_x == WrappingSub(width, secondary_text_width) \div 2
        secondary_y == WrappingAdd(WrappingAdd(start_y, char_height), 40)
        info_text == FileSelected
        small_char_width == 12
        small_char_height == 15
        small_padding == 1
        info_text_width == StrLen(info_text) * (small_char_width + small_padding)
        info_x == WrappingSub(width, info_text_width) \div 2
        info_y == WrappingSub(height, 60)
        \* drawn1, drawn2, drawn3: the buffer after each draw_text call
        Drawn(drawn1, drawn2, drawn3) ==
            [ buffer |-> drawn3.buffer,
              overflow |->
                  \/ SubOverflows(width, text_width)
                  \/ SubOverflows(height \div 2, char_height)
                  \/ drawn1.overflow
                  \/ /\ has_secondary
                     /\ \/ SubOverflows(width, secondary_text_width)
                        \/ AddOverflows(start_y, char_height)
                        \/ AddOverflows(WrappingAdd(start_y, char_height), 40)
                        \/ drawn2.overflow
                        \/ SubOverflows(width, info_text_width)
                        \/ SubOverflows(height, 60)
                        \/ drawn3.overflow,
              panic |-> has_secondary /\ truncated
                           /\ ~SliceIsCharBoundary(secondary_text, 27) ]
        DrawInfo(drawn1, drawn2) ==
            Drawn(drawn1, drawn2,
                  IF has_secondary
                  THEN draw_text(drawn2.buffer, width, height, bytes_per_row, info_text,
                                 info_x, info_y, small_char_width, small_char_height,
                                 small_padding, <<150, 50, 50>>)
                  ELSE drawn2)
        DrawSecondary(drawn1) ==
            DrawInfo(drawn1,
                     IF has_secondary
                     THEN draw_text(drawn1.buffer, width, height, bytes_per_row,
                                    to_uppercase(display_text(secondary_text)),
                                    secondary_x, secondary_y,
                                    smaller_char_width, smaller_char_height, smaller_padding,
                                    <<20, 120, 20>>)
                     ELSE [buffer |-> drawn1.buffer, overflow |-> FALSE])
    IN  DrawSecondary(draw_text(background, width, height, bytes_per_row, primary,
                                start_x, start_y, char_width, char_height, char_padding,
                                <<30, 30, 180>>))

(***************************************************************************)
(* add_debug_borders.  The loops write in source order, so a pixel keeps   *)
(* the colour of the last loop that writes it: the corner boxes over the   *)
(* borders, and each box over the boxes drawn before it.  `panic`: some    *)
(* loop indexes the vector at or past its length.                          *)
(***************************************************************************)
border_thickness == 3
corner_size == 15

\* a variant of add_debug_borders that draws a red frame one pixel thick and
\* no corner boxes
add_debug_borders_thin(buffer, width, height, bytes_per_row) ==
    [ buffer |-> Vec([i \in 1 .. Len(buffer) |->
                        IF \/ (i - 1) % width \in {0, width - 1}
                           \/ (i - 1) \div width \in {0, height - 1}
                        THEN <<255, 0, 0, 255>>
                        ELSE buffer[i]]),
      panic |-> FALSE ]

\* a variant of add_debug_borders that draws the red three-pixel border and
\* no corner boxes
add_debug_borders_ring_only(buffer, width, height, bytes_per_row) ==
    [ buffer |-> Vec([i \in 1 .. Len(buffer) |->
                        IF \/ (i - 1) % width < 3
                           \/ (i - 1) % width >= width - 3
                           \/ (i - 1) \div width < 3
                           \/ (i - 1) \div width >= height - 3
                        THEN <<255, 0, 0, 255>>
                        ELSE buffer[i]]),
      panic |-> FALSE ]

add_debug_borders(buffer, width, height, bytes_per_row) ==
    LET n == Len(buffer)
        \* the pixels written by
        \*   for y in y0..y0+ny { for x in x0..x0+nx { idx = y*bytes_per_row + x*4 } }
        Loop(x0, nx, y0, ny) ==
            { PixelIndex(x, y, bytes_per_row) :
                x \in x0 .. (x0 + nx - 1), y \in y0 .. (y0 + ny - 1) }
        top == Loop(0, width, 0, border_thickness)
        bottom == IF height > border_thickness
                  THEN Loop(0, width, height - border_thickness, border_thickness)
                  ELSE {}
        left == Loop(0, border_thickness, 0, height)
        right == IF width > border_thickness
                 THEN Loop(width - border_thickness, border_thickness, 0, height)
                 ELSE {}
        top_left == Loop(0, corner_size, 0, corner_size)
        top_right == IF width > corner_size
                     THEN Loop(width - corner_size, corner_size, 0, corner_size)
                     ELSE {}
        bottom_left == IF height > corner_size
                       THEN Loop(0, corner_size, height - corner_size, corner_size)
                       ELSE {}
        bottom_right == IF width > corner_size /\ height > corner_size
                        THEN Loop(width - corner_size, corner_size,
                                  height - corner_size, corner_size)
                        ELSE {}
        Painted(red, green, blue, yellow) ==
            [ buffer |-> Vec([i \in 1 .. n |->
                                IF (i - 1) \in yellow THEN <<255, 255, 0, 255>>
                                ELSE IF (i - 1) \in blue THEN <<0, 0, 255, 255>>
                                ELSE IF (i - 1) \in green THEN <<0, 255, 0, 255>>
                                ELSE IF (i - 1) \in red THEN <<255, 0, 0, 255>>
                                ELSE buffer[i]]),
              panic |-> \E q \in red \cup green \cup blue \cup yellow : q >= n ]
    IN  Painted(SetOf(top \cup bottom \cup left \cup right \cup top_left),
                SetOf(top_right), SetOf(bottom_left), SetOf(bottom_right))

(***************************************************************************)
(* generate_source_pattern: a fresh zeroed buffer, the base pattern of the *)
(* current kind, the debug overlays, and the result stored in              *)
(* self.source_pattern.  GeneratePattern is the part that computes the     *)
(* SourcePattern; it reads only the source size, the kind and the texts of *)
(* self.  Its result carries the pattern and whether the call panics (an   *)
(* index out of range or a bad slice) or wraps a usize.                    *)
(***************************************************************************)
GeneratePattern(self) ==
    LET width == self.source_width
        height == self.source_height
        bytes_per_row == width * 4
        buffer_size == bytes_per_row * height
        buffer == ZeroBuffer(buffer_size)
        base == CASE self.pattern_type = "Checkerboard" ->
                       [ buffer |-> generate_checkerboard(buffer, width, height, bytes_per_row),
                         overflow |-> FALSE, panic |-> FALSE ]
                  [] self.pattern_type = "Gradient" ->
                       [ buffer |-> generate_gradient(buffer, width, height, bytes_per_row),
                         overflow |-> FALSE, panic |-> FALSE ]
                  [] self.pattern_type = "Text" ->
                       generate_text(self, buffer, width, height, bytes_per_row)
        Bordered(based, bordered) ==
            [ source_pattern |-> [ buffer |-> bordered.buffer,
                                   width |-> width,
                                   height |-> height,
                                   bytes_per_row |-> bytes_per_row ],
              panic |-> based.panic \/ bordered.panic,
              overflow |-> based.overflow ]
        Overlaid(based) ==
            Bordered(based, add_debug_borders(based.buffer, width, height, bytes_per_row))
    IN  Overlaid(base)

(***************************************************************************)
(* The inputs of the model, and GeneratePattern tabulated over them: the   *)
(* table only saves evaluating the same pattern again for every            *)
(* transition; an input outside it is computed directly.                   *)
(***************************************************************************)
PatternTypes == {"Checkerboard", "Gradient", "Text"}

\* (width, height) handed to ImageRenderer::new
SourceSizes == { <<40, 84>> }

\* (width, height) of the sources RenderSpec samples
RenderSizes == { <<16, 15>>, <<36, 32>> }

TextRequests == { <<None, None>>,
                  <<Some(<<"A">>), None>>,
                  <<Some(<<"C">>), Some(<<"a", "B">>)>> }

PatternInput(self) ==
    [ pattern_type |-> self.pattern_type,
      source_width |-> self.source_width,
      source_height |-> self.source_height,
      primary_text |-> self.primary_text,
      secondary_text |-> self.secondary_text ]

\* url_path.split('/').last()
LastComponent(url_path) ==
    LET slashes == { i \in 1 .. Len(url_path) : url_path[i] = "/" }
        last_slash == CHOOSE i \in slashes : \A j \in slashes : j <= i
    IN  IF slashes = {} THEN url_path
        ELSE SubSeq(url_path, last_slash + 1, Len(url_path))

\* paths of the files chosen in the open panel
PickedPaths == { <<"/", "t", "/", "a", ".", "j", "p", "2">> }

\* what NSOpenPanel.runModal() hands back: None when the panel is cancelled,
\* or Some(path of the chosen URL)
Picks == {None} \cup { Some(path) : path \in PickedPaths }

\* the texts a renderer of the application can hold
AppTextRequests ==
    { <<None, None>> }
       \cup { << Some(ComingSoon), Some(LastComponent(path)) >> : path \in PickedPaths }

PatternInputs ==
    { [ pattern_type |-> k,
        source_width |-> size[1],
        source_height |-> size[2],
        primary_text |-> text[1],
        secondary_text |-> text[2] ] :
      k \in PatternTypes, size \in SourceSizes \cup RenderSizes, text \in TextRequests }
    \cup
    { [ pattern_type |-> k,
        source_width |-> AppWidth,
        source_height |-> AppHeight,
        primary_text |-> text[1],
        secondary_text |-> text[2] ] :
      k \in PatternTypes, text \in AppTextRequests }

PatternTable == [in \in PatternInputs |-> GeneratePattern(in)] @@ << >>

\* the result of a method that neither panics nor wraps
Completed(self) == [ self |-> self, panic |-> FALSE, overflow |-> FALSE ]

\* a variant of generate_source_pattern that never stores the pattern
generate_source_pattern_unstored(self) == Completed(self)

generate_source_pattern(self) ==
    LET Stored(r) ==
            [ self |-> [self EXCEPT !.source_pattern = Some(r.source_pattern)],
              panic |-> r.panic,
              overflow |-> r.overflow ]
    IN  Stored(IF PatternInput(self) \in PatternInputs
               THEN PatternTable[PatternInput(self)]
               ELSE GeneratePattern(PatternInput(self)))

(***************************************************************************)
(* ImageRenderer.  zoom_level is held in tenths (10 is 1.0); view_x and    *)
(* view_y are integers.                                                    *)
(***************************************************************************)
new(pattern_type, width, height) ==
    generate_source_pattern(
        [ source_width |-> width,
          source_height |-> height,
          zoom_level |-> 10,
          view_x |-> 0,
          view_y |-> 0,
          pattern_type |-> pattern_type,
          source_pattern |-> None,
          primary_text |-> None,
          secondary_text |-> None ])

\* a variant of set_zoom without the upper limit
set_zoom_unlimited(self, zoom) == [self EXCEPT !.zoom_level = Max(zoom, 1)]

\* zoom.max(0.1).min(10.0), in tenths
set_zoom(self, zoom) == [self EXCEPT !.zoom_level = Min(Max(zoom, 1), 100)]

\* set_pan, except that a negative origin is clamped to 0
set_pan_clamped(self, x, y) == [self EXCEPT !.view_x = Max(x, 0), !.view_y = Max(y, 0)]

\* set_pan with the two coordinates exchanged
set_pan_transposed(self, x, y) == [self EXCEPT !.view_x = y, !.view_y = x]

set_pan(self, x, y) == [self EXCEPT !.view_x = x, !.view_y = y]

\* a variant of change_pattern_type that leaves the regeneration for later
change_pattern_type_lazy(self, pattern_type) ==
    Completed([self EXCEPT !.pattern_type = pattern_type])

\* a variant of change_pattern_type that builds the renderer anew
change_pattern_type_anew(self, pattern_type) ==
    new(pattern_type, self.source_width, self.source_height)

change_pattern_type(self, pattern_type) ==
    generate_source_pattern([self EXCEPT !.pattern_type = pattern_type])

\* a variant of set_text that stores the texts and never regenerates
set_text_stored_only(self, primary, secondary) ==
    Completed([self EXCEPT !.primary_text = primary, !.secondary_text = secondary])

\* a variant of set_text that regenerates before it stores the texts
set_text_regenerating_first(self, primary, secondary) ==
    LET generated == IF self.pattern_type = "Text" THEN generate_source_pattern(self)
                     ELSE Completed(self)
    IN  [ generated EXCEPT !.self = [@ EXCEPT !.primary_text = primary,
                                              !.secondary_text = secondary] ]

set_text(self, primary, secondary) ==
    LET stored == [self EXCEPT !.primary_text = primary, !.secondary_text = secondary]
    IN  IF stored.pattern_type = "Text"
        THEN generate_source_pattern(stored)
        ELSE Completed(stored)

\* a variant of get_viewport_size that rounds to nearest
get_viewport_size_rounded(self) ==
    << (2 * self.source_width * self.zoom_level + 10) \div 20,
       (2 * self.source_height * self.zoom_level + 10) \div 20 >>

\* (source_width as f64 * zoom_level) as usize, and the same for the height
get_viewport_size(self) ==
    << F64AsUsize(self.source_width * self.zoom_level, 10),
       F64AsUsize(self.source_height * self.zoom_level, 10) >>

(***************************************************************************)
(* render.  bitmap_ok: the platform handed out the bitmap's data buffer    *)
(* (bitmapData is not null).  The result carries the renderer after the    *)
(* call (render takes &self), the image returned, and whether a usize      *)
(* addition of the sampling loop left the word range (computed wrapped).   *)
(* An image is its size and the sequence of its pixels, row by row,        *)
(* bytes_per_row being viewport_width * 4.                                 *)
(***************************************************************************)
Sentinel == <<128, 0, 128, 255>>
\* a destination pixel the loop never wrote (only when there is no source)
Unwritten == <<-1, -1, -1, -1>>

\* a variant of src_clamped that ignores the zoom
src_clamped_unscaled(view, zoom_level, d, size) ==
    Min(WrappingAdd(F64AsUsize(view, 1), d), size - 1)

\* src_x_clamped (src_y_clamped) for the destination column (row) d:
\*   start_src = (view * scale_factor) as usize
\*   src = start_src + (d as f64 * scale_factor) as usize
\*   src.min(size - 1)
\* with scale_factor = 1.0 / zoom_level, so v * scale_factor is v * 10 / zoom_level
src_clamped(view, zoom_level, d, size) ==
    Min(WrappingAdd(F64AsUsize(view * 10, zoom_level), F64AsUsize(d * 10, zoom_level)), size - 1)

\* what the loop body stores in the destination pixel: the source pixel at the
\* clamped coordinates, or the distinctive colour when src_idx is out of range
copy_pixel(source, src_x_clamped, src_y_clamped) ==
    LET src_idx == src_y_clamped * source.bytes_per_row + src_x_clamped * 4
    IN  IF src_idx + 3 < BufferLen(source.buffer)
        THEN Pixel(source.buffer, src_idx \div 4)
        ELSE Sentinel

\* a variant of render that stores the origin it sampled from
render_storing_origin(self, bitmap_ok) ==
    [ self |-> [self EXCEPT !.view_x = F64AsUsize(self.view_x * 10, self.zoom_level) + 1],
      image |-> IF bitmap_ok
                THEN Some([ width |-> 0, height |-> 0, pixels |-> << >> ])
                ELSE None,
      panic |-> FALSE,
      overflow |-> FALSE ]

render(self, bitmap_ok) ==
    LET viewport_width == get_viewport_size(self)[1]
        viewport_height == get_viewport_size(self)[2]
        has_source == IsSome(self.source_pattern)
        source == Unwrap(self.source_pattern)
        \* v * scale_factor with scale_factor = 1.0 / zoom_level is v * 10 / zoom_level
        start_src_x == F64AsUsize(self.view_x * 10, self.zoom_level)
        start_src_y == F64AsUsize(self.view_y * 10, self.zoom_level)
        offset(d) == F64AsUsize(d * 10, self.zoom_level)
        \* src_x_clamped for each column x and src_y_clamped for each row y: they
        \* depend on x alone and on y alone, so they are tabulated once
        src_x_clamped ==
            Vec([i \in 1 .. viewport_width |->
                    src_clamped(self.view_x, self.zoom_level, i - 1, source.width)])
        src_y_clamped ==
            Vec([i \in 1 .. viewport_height |->
                    src_clamped(self.view_y, self.zoom_level, i - 1, source.height)])
        sample(x, y) == copy_pixel(source, src_x_clamped[x + 1], src_y_clamped[y + 1])
        pixels == Vec([i \in 1 .. (viewport_width * viewport_height) |->
                         IF has_source
                         THEN sample((i - 1) % viewport_width, (i - 1) \div viewport_width)
                         ELSE Unwritten])
    IN  [ self |-> self,
          image |-> IF bitmap_ok
                    THEN Some([ width |-> viewport_width,
                                height |-> viewport_height,
                                pixels |-> pixels ])
                    ELSE None,
          panic |-> FALSE,
          overflow |->
              /\ bitmap_ok
              /\ has_source
              /\ viewport_width > 0
              /\ viewport_height > 0
              /\ \/ \E x \in 0 .. (viewport_width - 1) : AddOverflows(start_src_x, offset(x))
                 \/ \E y \in 0 .. (viewport_height - 1) : AddOverflows(start_src_y, offset(y))
                 \/ SubOverflows(source.width, 1)
                 \/ SubOverflows(source.height, 1) ]

(***************************************************************************)
(* State.                                                                  *)
(*   renderer         the ImageRenderer (AppDelegateIvars.renderer in      *)
(*                    AppSpec), None before construction                   *)
(*   overflow_checks  the build: TRUE panics on usize overflow (debug),    *)
(*                    FALSE wraps (release)                                *)
(*   last_call        the ImageRenderer method called last, with its       *)
(*                    argument                                             *)
(*   outcome          how that call ended: "ok", "wrapped" (it completed   *)
(*                    after a usize wrapped) or "panic" (the process died) *)
(*   image            what the last call returned when it was render():    *)
(*                    Some(image); None after any other call               *)
(*   app              the rest of AppDelegateIvars, the renderer's Mutex   *)
(*                    and the position of the running callback             *)
(*   gen              the locals of a generate_source_pattern, draw_text   *)
(*                    or render call that runs step by step (GenSpec,      *)
(*                    DrawSpec, ScenarioSpec); NoGen when no such call is  *)
(*                    in progress                                          *)
(***************************************************************************)
VARIABLES renderer, overflow_checks, last_call, outcome, image, app, gen

vars == << renderer, overflow_checks, last_call, outcome, image, app, gen >>

\* zoom requests, in tenths: below, inside and above [0.1, 10.0]
ZoomRequests == {0, 5, 10, 150}

PanRequests == { <<0, 0>>, <<-20, 90>> }

\* a pan whose quotient by every zoom reaches the word range
HugePan == UsizeMod * 10

Call(op, arg) == [ op |-> op, arg |-> arg ]

Running == outcome # "panic"
Self == Unwrap(renderer)

\* the state after a call that produced result r
Finish(r, call) ==
    /\ last_call' = call
    /\ IF r.panic \/ (r.overflow /\ overflow_checks)
       THEN /\ outcome' = "panic"
            /\ UNCHANGED renderer
       ELSE /\ outcome' = IF r.overflow THEN "wrapped" ELSE "ok"
            /\ renderer' = Some(r.self)
    /\ UNCHANGED << overflow_checks, gen >>

\* the state after a render() that produced result r
Returned(r, bitmap_ok) ==
    /\ Finish(r, Call("render", bitmap_ok))
    /\ image' = IF r.panic \/ (r.overflow /\ overflow_checks) THEN None ELSE r.image

(***************************************************************************)
(* AppDelegateIvars after applicationDidFinishLaunching, without the       *)
(* renderer: the window, the views and the slider exist.  `displayed` is   *)
(* the image the image view shows; `lock` the state of the renderer's      *)
(* Mutex; `pc` the callback that is running and the point it has reached;  *)
(* `event` the argument of that callback; `returned` what the last         *)
(* callback returned; `callbacks` the number of callbacks delivered.       *)
(***************************************************************************)
AtRest == << "none", "idle" >>

\* no call is running step by step
NoGen == [ stage |-> "none" ]

Launched ==
    [ pc |-> AtRest,
      lock |-> "free",
      selected_file_path |-> None,
      decoded_image |-> None,
      displayed |-> None,
      last_mouse_location |-> <<0, 0>>,
      is_panning |-> FALSE,
      event |-> None,
      returned |-> "none",
      callbacks |-> 0 ]

Init ==
    /\ renderer = None
    /\ overflow_checks \in BOOLEAN
    /\ last_call = Call("none", 0)
    /\ outcome = "ok"
    /\ image = None
    /\ app = Launched
    /\ gen = NoGen

New(pattern_type, size) ==
    /\ Running
    /\ renderer = None
    /\ Finish(new(pattern_type, size[1], size[2]), Call("new", <<pattern_type, size>>))
    /\ image' = None
    /\ UNCHANGED app

SetZoom(zoom) ==
    /\ Running
    /\ IsSome(renderer)
    /\ Finish(Completed(set_zoom(Self, zoom)), Call("set_zoom", zoom))
    /\ image' = None
    /\ UNCHANGED app

SetPan(pan) ==
    /\ Running
    /\ IsSome(renderer)
    /\ Finish(Completed(set_pan(Self, pan[1], pan[2])), Call("set_pan", pan))
    /\ image' = None
    /\ UNCHANGED app

ChangePatternType(pattern_type) ==
    /\ Running
    /\ IsSome(renderer)
    /\ Finish(change_pattern_type(Self, pattern_type),
              Call("change_pattern_type", pattern_type))
    /\ image' = None
    /\ UNCHANGED app

SetText(text) ==
    /\ Running
    /\ IsSome(renderer)
    /\ Finish(set_text(Self, text[1], text[2]), Call("set_text", text))
    /\ image' = None
    /\ UNCHANGED app

ViewportPixels(self) == get_viewport_size(self)[1] * get_viewport_size(self)[2]

Render(bitmap_ok) ==
    /\ Running
    /\ IsSome(renderer)
    /\ ViewportPixels(Self) <= MaxViewportPixels
    /\ Returned(render(Self, bitmap_ok), bitmap_ok)
    /\ UNCHANGED app

Next ==
    \/ \E k \in PatternTypes, size \in SourceSizes : New(k, size)
    \/ \E zoom \in ZoomRequests : SetZoom(zoom)
    \/ \E pan \in PanRequests : SetPan(pan)
    \/ \E k \in PatternTypes : ChangePatternType(k)
    \/ \E text \in TextRequests : SetText(text)
    \/ \E bitmap_ok \in BOOLEAN : Render(bitmap_ok)

Spec == Init /\ [][Next]_vars

(***************************************************************************)
(* RenderSpec: render() as a function of the renderer.  The initial states *)
(* are renderers built by new, set_zoom and set_pan over the zooms of      *)
(* [0.1, 10.0] and pans on both sides of the source and beyond the word    *)
(* range; the one action renders.                                          *)
(***************************************************************************)
RenderKinds == {"Checkerboard", "Gradient"}
RenderZooms == {1, 5, 10, 20, 100}
RenderPans == { <<0, 0>>, <<7, 5>>, <<-20, -7>>, <<30, 90>>, <<HugePan, 0>>, <<3, HugePan>> }

RenderInit ==
    /\ overflow_checks \in BOOLEAN
    /\ \E k \in RenderKinds, size \in RenderSizes, zoom \in RenderZooms, pan \in RenderPans :
          /\ renderer = Some(set_pan(set_zoom(new(k, size[1], size[2]).self, zoom),
                                     pan[1], pan[2]))
          /\ last_call = Call("set_pan", pan)
    /\ outcome = "ok"
    /\ image = None
    /\ app = Launched
    /\ gen = NoGen

RenderOnce(bitmap_ok) ==
    /\ Running
    /\ ViewportPixels(Self) <= MaxRenderPixels
    /\ Returned(render(Self, bitmap_ok), bitmap_ok)
    /\ UNCHANGED app

RenderNext == \E bitmap_ok \in BOOLEAN : RenderOnce(bitmap_ok)

RenderSpec == RenderInit /\ [][RenderNext]_vars

(***************************************************************************)
(* AppSpec: the AppDelegate callbacks.  They run on the main thread, one   *)
(* at a time; a callback is a sequence of steps, one for each stretch of   *)
(* code between the points where it takes or drops the MutexGuard:         *)
(*   <<cb, "mutated">>  cb has changed the renderer and holds the guard    *)
(*   <<cb, "render">>   cb is about to lock and render                     *)
(*   <<cb, "display">>  cb has rendered and holds the guard                *)
(* A panic inside a callback ends the process.                             *)
(***************************************************************************)
At(cb, stage) == Running /\ app.pc = << cb, stage >>

\* the run loop is idle and delivers the next callback
Idle == At("none", "idle") /\ app.callbacks < MaxCallbacks
Delivered(ivars) == [ivars EXCEPT !.callbacks = @ + 1]

\* how far the pointer moves between events
MouseLocations == { <<0, 0>>, <<5, -3>> }

\* NSSlider values, in tenths, within its range [0.1, 5.0]
SliderValues == {1, 2}

\* a variant of AndThen that makes the first call only
AndThen_first_only(first, second) == first

\* two method calls in a row on the same renderer
AndThen(first, second) ==
    [ self |-> second.self,
      panic |-> first.panic \/ second.panic,
      overflow |-> first.overflow \/ second.overflow ]

handleDisplayImage(ivars) ==
    IF IsSome(ivars.decoded_image)
    THEN [ivars EXCEPT !.displayed = ivars.decoded_image, !.returned = "YES"]
    ELSE [ivars EXCEPT !.returned = "NO"]

\* a variant of DropGuard in which the guard of the mutating block outlives
\* the block
DropGuard_keeping(cb) ==
    /\ At(cb, "mutated")
    /\ app' = [app EXCEPT !.pc = << cb, "render" >>]
    /\ UNCHANGED << renderer, overflow_checks, last_call, outcome, image, gen >>

\* the guard of the mutating block goes out of scope
DropGuard(cb) ==
    /\ At(cb, "mutated")
    /\ app' = [app EXCEPT !.pc = << cb, "render" >>, !.lock = "free"]
    /\ UNCHANGED << renderer, overflow_checks, last_call, outcome, image, gen >>

\* let image = { let renderer_guard = renderer.lock().unwrap(); renderer_guard.render() }
\* up to the call's return
LockAndRender(cb, bitmap_ok) ==
    /\ At(cb, "render")
    /\ app.lock = "free"
    /\ Returned(render(Self, bitmap_ok), bitmap_ok)
    /\ app' = [app EXCEPT !.pc = << cb, "display" >>, !.lock = "held"]

\* a variant of StoreAndDisplay that forgets the stored image when render()
\* gave none
StoreAndDisplay_clearing(cb) ==
    /\ At(cb, "display")
    /\ app' = IF IsSome(image)
              THEN [ handleDisplayImage([app EXCEPT !.decoded_image = image])
                       EXCEPT !.pc = AtRest, !.lock = "free", !.returned = "YES" ]
              ELSE [app EXCEPT !.pc = AtRest, !.lock = "free", !.returned = "NO",
                               !.decoded_image = None]
    /\ UNCHANGED << renderer, overflow_checks, last_call, outcome, image, gen >>

\* the guard of the render block is dropped; if let Some(image) = image { ... }
StoreAndDisplay(cb) ==
    /\ At(cb, "display")
    /\ app' = IF IsSome(image)
              THEN [ handleDisplayImage([app EXCEPT !.decoded_image = image])
                       EXCEPT !.pc = AtRest, !.lock = "free", !.returned = "YES" ]
              ELSE [app EXCEPT !.pc = AtRest, !.lock = "free", !.returned = "NO"]
    /\ UNCHANGED << renderer, overflow_checks, last_call, outcome, image, gen >>

\* the first block of createGradient and createCheckerboard
CreateOrChange(cb, pattern_type) ==
    /\ Idle
    /\ image' = None
    /\ IF renderer = None
       THEN /\ Finish(new(pattern_type, AppWidth, AppHeight),
                      Call("new", <<pattern_type, <<AppWidth, AppHeight>> >>))
            /\ app' = [Delivered(app) EXCEPT !.pc = << cb, "render" >>, !.event = None,
                                  !.returned = "none"]
       ELSE /\ app.lock = "free"
            /\ Finish(change_pattern_type(Self, pattern_type),
                      Call("change_pattern_type", pattern_type))
            /\ app' = [Delivered(app) EXCEPT !.pc = << cb, "mutated" >>, !.lock = "held",
                                  !.event = None, !.returned = "none"]

createGradient ==
    \/ CreateOrChange("createGradient", "Gradient")
    \/ DropGuard("createGradient")
    \/ \E bitmap_ok \in BOOLEAN : LockAndRender("createGradient", bitmap_ok)
    \/ StoreAndDisplay("createGradient")

createCheckerboard ==
    \/ CreateOrChange("createCheckerboard", "Checkerboard")
    \/ DropGuard("createCheckerboard")
    \/ \E bitmap_ok \in BOOLEAN : LockAndRender("createCheckerboard", bitmap_ok)
    \/ StoreAndDisplay("createCheckerboard")

\* openFile up to the end of the block that creates or updates the renderer
PickFile(pick) ==
    /\ Idle
    /\ image' = None
    /\ IF pick = None
       THEN /\ app' = [Delivered(app) EXCEPT !.event = pick, !.returned = "NO"]
            /\ UNCHANGED << renderer, overflow_checks, last_call, outcome, gen >>
       ELSE LET filename == Some(LastComponent(Unwrap(pick)))
                text == << Some(ComingSoon), filename >>
            IN  IF renderer = None
                THEN /\ Finish(AndThen(new("Text", AppWidth, AppHeight),
                                       set_text(new("Text", AppWidth, AppHeight).self,
                                                text[1], text[2])),
                               Call("set_text", text))
                     /\ app' = [Delivered(app) EXCEPT !.pc = << "openFile", "render" >>,
                                           !.selected_file_path = pick,
                                           !.event = pick, !.returned = "none"]
                ELSE /\ app.lock = "free"
                     /\ Finish(AndThen(change_pattern_type(Self, "Text"),
                                       set_text(change_pattern_type(Self, "Text").self,
                                                text[1], text[2])),
                               Call("set_text", text))
                     /\ app' = [Delivered(app) EXCEPT !.pc = << "openFile", "mutated" >>,
                                           !.lock = "held",
                                           !.selected_file_path = pick,
                                           !.event = pick, !.returned = "none"]

openFile ==
    \/ \E pick \in Picks : PickFile(pick)
    \/ DropGuard("openFile")
    \/ \E bitmap_ok \in BOOLEAN : LockAndRender("openFile", bitmap_ok)
    \/ StoreAndDisplay("openFile")

\* zoomChanged up to the end of the block that calls set_zoom; sender is None
\* or Some(slider value)
SliderMoved(sender) ==
    /\ Idle
    /\ image' = None
    /\ IF sender = None \/ renderer = None
       THEN /\ app' = [Delivered(app) EXCEPT !.event = sender, !.returned = "NO"]
            /\ UNCHANGED << renderer, overflow_checks, last_call, outcome, gen >>
       ELSE /\ app.lock = "free"
            /\ Finish(Completed(set_zoom(Self, Unwrap(sender))),
                      Call("set_zoom", Unwrap(sender)))
            /\ app' = [Delivered(app) EXCEPT !.pc = << "zoomChanged", "mutated" >>, !.lock = "held",
                                  !.event = sender, !.returned = "none"]

\* zoomChanged returns NO when render() gave no image
zoomChanged ==
    \/ \E sender \in {None} \cup { Some(v) : v \in SliderValues } : SliderMoved(sender)
    \/ DropGuard("zoomChanged")
    \/ \E bitmap_ok \in BOOLEAN : LockAndRender("zoomChanged", bitmap_ok)
    \/ StoreAndDisplay("zoomChanged")

mouseDown(location) ==
    /\ Idle
    /\ app' = [Delivered(app) EXCEPT !.is_panning = TRUE, !.last_mouse_location = location,
                          !.event = Some(location), !.returned = "YES"]
    /\ UNCHANGED << renderer, overflow_checks, last_call, outcome, image, gen >>

\* mouseDragged up to the end of the block that calls set_pan
Dragged(current_location) ==
    /\ Idle
    /\ image' = None
    /\ IF ~app.is_panning
       THEN /\ app' = [Delivered(app) EXCEPT !.event = Some(current_location), !.returned = "NO"]
            /\ UNCHANGED << renderer, overflow_checks, last_call, outcome, gen >>
       ELSE LET delta_x == current_location[1] - app.last_mouse_location[1]
                delta_y == current_location[2] - app.last_mouse_location[2]
            IN  IF renderer = None
                THEN /\ app' = [Delivered(app) EXCEPT !.last_mouse_location = current_location,
                                           !.event = Some(current_location),
                                           !.returned = "YES"]
                     /\ UNCHANGED << renderer, overflow_checks, last_call, outcome, gen >>
                ELSE /\ app.lock = "free"
                     /\ Finish(Completed(set_pan(Self, Self.view_x - delta_x,
                                                 Self.view_y - delta_y)),
                               Call("set_pan", << Self.view_x - delta_x,
                                                  Self.view_y - delta_y >>))
                     /\ app' = [Delivered(app) EXCEPT !.pc = << "mouseDragged", "mutated" >>,
                                           !.lock = "held",
                                           !.event = Some(current_location),
                                           !.returned = "none"]

\* the end of mouseDragged: it stores the image if there is one, records the
\* pointer and returns YES
DraggedDisplay ==
    /\ At("mouseDragged", "display")
    /\ app' = [ (IF IsSome(image)
                 THEN handleDisplayImage([app EXCEPT !.decoded_image = image])
                 ELSE app)
                EXCEPT !.pc = AtRest, !.lock = "free",
                       !.last_mouse_location = Unwrap(app.event),
                       !.returned = "YES" ]
    /\ UNCHANGED << renderer, overflow_checks, last_call, outcome, image, gen >>

\* the pans a drag may reach in the model
PanWithin(location) ==
    IF renderer = None \/ ~app.is_panning
    THEN TRUE
    ELSE /\ Self.view_x - (location[1] - app.last_mouse_location[1]) \in -MaxPan .. MaxPan
         /\ Self.view_y - (location[2] - app.last_mouse_location[2]) \in -MaxPan .. MaxPan

mouseDragged ==
    \/ \E location \in MouseLocations : PanWithin(location) /\ Dragged(location)
    \/ DropGuard("mouseDragged")
    \/ \E bitmap_ok \in BOOLEAN : LockAndRender("mouseDragged", bitmap_ok)
    \/ DraggedDisplay

mouseUp ==
    /\ Idle
    /\ app' = [Delivered(app) EXCEPT !.is_panning = FALSE, !.event = None, !.returned = "YES"]
    /\ UNCHANGED << renderer, overflow_checks, last_call, outcome, image, gen >>

AppNext ==
    \/ createGradient
    \/ createCheckerboard
    \/ openFile
    \/ zoomChanged
    \/ \E location \in MouseLocations : mouseDown(location)
    \/ mouseDragged
    \/ mouseUp

AppSpec == Init /\ [][AppNext]_vars

(***************************************************************************)
(* Properties of render (checked under RenderSpec).                        *)
(***************************************************************************)
\* render() returned an image
RenderReturned == last_call.op = "render" /\ outcome # "panic" /\ IsSome(image)

Clamp(v, lo, hi) == Min(Max(v, lo), hi)

\* floor(pan / zoom) + floor(d / zoom), the sum formed before any clamping
ComputedCoordinate(pan, d, zoom_level) == ((pan * 10) \div zoom_level) + ((d * 10) \div zoom_level)

\* the colour of source pixel (sx, sy)
SourcePixel(self, sx, sy) ==
    Pixel(Unwrap(self.source_pattern).buffer, sy * self.source_width + sx)

\* the colour render() gave destination pixel (dx, dy)
DestPixel(dx, dy) == Pixel(Unwrap(image).pixels, dy * Unwrap(image).width + dx)

DestColumns == 0 .. (Unwrap(image).width - 1)
DestRows == 0 .. (Unwrap(image).height - 1)

\* C1: for every zoom, every pan (negative pans included) and every destination
\* pixel (dx, dy), render() copies the source pixel at
\* (clamp(floor(pan_x/zoom) + floor(dx/zoom), 0, w-1),
\*  clamp(floor(pan_y/zoom) + floor(dy/zoom), 0, h-1)).
C1_RenderCopiesClampedSum ==
    RenderReturned =>
        \A dx \in DestColumns, dy \in DestRows :
            DestPixel(dx, dy) =
                SourcePixel(Self,
                    Clamp(ComputedCoordinate(Self.view_x, dx, Self.zoom_level),
                          0, Self.source_width - 1),
                    Clamp(ComputedCoordinate(Self.view_y, dy, Self.zoom_level),
                          0, Self.source_height - 1))

\* C2: a destination pixel whose computed source coordinate lies outside the
\* source, below 0 as well as above w-1 or h-1, shows the nearest boundary
\* pixel of the source; nothing wraps around.
C2_OutOfRangeShowsNearestBoundary ==
    RenderReturned =>
        \A dx \in DestColumns, dy \in DestRows :
            LET cx == ComputedCoordinate(Self.view_x, dx, Self.zoom_level)
                cy == ComputedCoordinate(Self.view_y, dy, Self.zoom_level)
                nearest_x == IF cx < 0 THEN 0
                             ELSE IF cx > Self.source_width - 1 THEN Self.source_width - 1
                             ELSE cx
                nearest_y == IF cy < 0 THEN 0
                             ELSE IF cy > Self.source_height - 1 THEN Self.source_height - 1
                             ELSE cy
            IN  (cx # nearest_x \/ cy # nearest_y) =>
                    DestPixel(dx, dy) = SourcePixel(Self, nearest_x, nearest_y)

\* C3: render() runs to completion for every zoom of [0.1, 10.0] and every
\* pan, pans far past the source included: it does not panic and no usize
\* addition overflows.
C3_RenderNeverPanicsNorOverflows ==
    last_call.op = "render" => outcome = "ok"

\* round(v) for the f64 value num/den >= 0: to nearest, halves away from zero
Round(num, den) == (2 * num + den) \div (2 * den)

\* C4: the viewport is (round(width * zoom), round(height * zoom)), rounded to
\* nearest, not truncated.
C4_ViewportIsRounded ==
    RenderReturned =>
        /\ Unwrap(image).width = Round(Self.source_width * Self.zoom_level, 10)
        /\ Unwrap(image).height = Round(Self.source_height * Self.zoom_level, 10)

\* C4 as the code has it: the viewport is (floor(width * zoom),
\* floor(height * zoom)); the fraction is dropped.
C4_ViewportIsTruncated ==
    /\ get_viewport_size(Self) = << (Self.source_width * Self.zoom_level) \div 10,
                                    (Self.source_height * Self.zoom_level) \div 10 >>
    /\ RenderReturned =>
          /\ Unwrap(image).width = (Self.source_width * Self.zoom_level) \div 10
          /\ Unwrap(image).height = (Self.source_height * Self.zoom_level) \div 10

\* a render of a viewport whose exact width has a fraction of one half or more
C4_Witness ==
    /\ RenderReturned
    /\ Self.source_width = 36
    /\ Self.zoom_level = 1
    /\ Unwrap(image).width = 3
    /\ Unwrap(image).height = 3

(***************************************************************************)
(* Properties of the renderer's state (checked under Spec).                *)
(***************************************************************************)
\* the SourcePattern the generator gives for the kind, size and texts of self
Generated(self) == generate_source_pattern(self).self.source_pattern

\* C5: set_zoom(z) stores min(max(z, 0.1), 10.0); in every reachable state the
\* stored zoom is in [0.1, 10.0] and the viewport is computed from the stored,
\* clamped value: a request of 15.0 on an 800x600 source gives 8000x6000.
C5_ZoomIsClamped ==
    IsSome(renderer) =>
        /\ Self.zoom_level \in 1 .. 100
        /\ (last_call.op = "set_zoom" /\ outcome # "panic") =>
               /\ Self.zoom_level = Clamp(last_call.arg, 1, 100)
               /\ get_viewport_size(Self) =
                      << (Self.source_width * Clamp(last_call.arg, 1, 100)) \div 10,
                         (Self.source_height * Clamp(last_call.arg, 1, 100)) \div 10 >>
        /\ get_viewport_size(set_zoom([Self EXCEPT !.source_width = 800,
                                                    !.source_height = 600], 150))
              = << 8000, 6000 >>

\* set_zoom(15.0) has returned: the stored zoom is 10.0
C5_Witness ==
    /\ IsSome(renderer)
    /\ last_call = Call("set_zoom", 150)
    /\ outcome = "ok"
    /\ Self.zoom_level = 100
    /\ get_viewport_size(Self) = << Self.source_width * 10, Self.source_height * 10 >>

\* C6: change_pattern_type(kind) stores the kind and regenerates the cached
\* buffer before it returns; in no state does the renderer hold a kind whose
\* pattern is not the one in the cache.
C6_KindAndCacheAgree ==
    (IsSome(renderer) /\ Running) =>
        /\ Self.source_pattern = Generated(Self)
        /\ last_call.op = "change_pattern_type" => Self.pattern_type = last_call.arg

\* change_pattern_type(Checkerboard) has returned and the cache holds the
\* checkerboard: white in the first square, black in the square right of it
C6_Witness ==
    /\ IsSome(renderer)
    /\ last_call = Call("change_pattern_type", "Checkerboard")
    /\ outcome = "ok"
    /\ SourcePixel(Self, 16, 16) = <<255, 255, 255, 255>>
    /\ SourcePixel(Self, 20, 16) = <<0, 0, 0, 255>>

\* C7: set_text(primary, secondary) stores both texts; when the kind is Text
\* the cache becomes the generator's output for the new texts, and when it is
\* Checkerboard or Gradient the cache is left as it was.
C7_SetTextStoresAndRegeneratesForText ==
    [][ ((last_call').op = "set_text" /\ outcome' # "panic" /\ IsSome(renderer)) =>
            /\ Unwrap(renderer').primary_text = (last_call').arg[1]
            /\ Unwrap(renderer').secondary_text = (last_call').arg[2]
            /\ Unwrap(renderer').pattern_type = Self.pattern_type
            /\ IF Self.pattern_type = "Text"
               THEN Unwrap(renderer').source_pattern = Generated(Unwrap(renderer'))
               ELSE Unwrap(renderer').source_pattern = Self.source_pattern ]_vars

\* set_text(Some("A"), None) has returned on a Text renderer and the cache
\* shows the primary text in its colour
C7_Witness ==
    /\ IsSome(renderer)
    /\ last_call = Call("set_text", << Some(<<"A">>), None >>)
    /\ outcome = "ok"
    /\ Self.pattern_type = "Text"
    /\ Self.primary_text = Some(<<"A">>)
    /\ SourcePixel(Self, 20, 18) = <<30, 30, 180, 255>>

\* C8: a renderer has a cached source buffer from construction on, and after
\* any sequence of set_zoom, set_pan, set_text, change_pattern_type and render
\* it is still present, of length width * 4 * height.
C8_CachePresentWithFullLength ==
    IsSome(renderer) =>
        /\ IsSome(Self.source_pattern)
        /\ BufferLen(Unwrap(Self.source_pattern).buffer)
              = Self.source_width * 4 * Self.source_height
        /\ Unwrap(Self.source_pattern).bytes_per_row = Self.source_width * 4

\* the cache after set_text regenerated a Text pattern
C8_Witness ==
    /\ IsSome(renderer)
    /\ last_call.op = "set_text"
    /\ Self.pattern_type = "Text"
    /\ IsSome(Self.source_pattern)
    /\ BufferLen(Unwrap(Self.source_pattern).buffer) = 40 * 4 * 84

C9_LockHeldFromMutationThroughRender ==
    [][ (app.pc[2] = "mutated") => (app').lock = "held" ]_vars

(***************************************************************************)
(* Properties of set_pan (checked under Spec).                             *)
(***************************************************************************)
\* C11: set_pan(x, y) stores x and y as given, whatever their values
\* (negative, or larger than the source), and changes no other field: the
\* zoom, the pattern kind, the texts, the source size and the cached source
\* buffer stay as they were.
C11_SetPanStoresVerbatim ==
    [][ ((last_call').op = "set_pan" /\ outcome' # "panic") =>
            /\ IsSome(renderer')
            /\ Unwrap(renderer').view_x = (last_call').arg[1]
            /\ Unwrap(renderer').view_y = (last_call').arg[2]
            /\ renderer' = Some([Self EXCEPT !.view_x = (last_call').arg[1], !.view_y = (last_call').arg[2]]) ]_vars

\* set_pan(-20, 90) has returned on a zoomed 40 x 84 renderer: the origin is
\* left of the source and below its last row, stored as given
C11_Witness ==
    /\ last_call = Call("set_pan", <<-20, 90>>)
    /\ outcome = "ok"
    /\ Self.view_x = -20
    /\ Self.view_y = 90
    /\ Self.view_y > Self.source_height
    /\ Self.zoom_level = 5
    /\ IsSome(Self.source_pattern)

(***************************************************************************)
(* GenSpec: one generate_source_pattern call, a step per statement group:  *)
(* the buffer is allocated (the initial state), the match arm of the       *)
(* current kind fills it, add_debug_borders stamps the overlays, and the   *)
(* SourcePattern is stored in self.source_pattern.  The call is entered    *)
(* from new (texts None) or from set_text (texts as just stored); the old  *)
(* cache is not read by generate_source_pattern and is taken as None.  A   *)
(* panic ends the call at the step that raises it.                         *)
(***************************************************************************)
\* (width, height) of the generated sources: empty, thinner than the border,
\* smaller than a corner box, exactly a corner box, and larger
GenSizes ==
    { <<0, 0>>, <<2, 5>>, <<4, 4>>, <<10, 10>>, <<10, 100>>, <<15, 15>>, <<15, 20>>,
      <<16, 16>>, <<20, 14>>, <<30, 30>>, <<31, 45>>, <<40, 100>>, <<100, 40>> }

\* the size of the sources generated with texts: wide enough for the primary
\* text, a short secondary text and the caption, and high enough for the three
\* lines to lie apart and inside the border
GenTextSize == << 170, 130 >>

\* n times the character c
Repeat(c, n) == [i \in 1 .. n |-> c]

\* (primary_text, secondary_text) as set_text stores them
GenTexts ==
    { << Some(<<"C">>), Some(<<"a">>) >>,
      << Some(<<"C">>), Some(<<" ">>) >>,
      << Some(<<"C">>), Some(<<"A">>) >>,
      << Some(<<"C">>), Some(<<"~", "B">>) >>,
      << Some(<<"C">>), Some(<<" ", "B">>) >>,
      << Some(<<"C">>), Some(<<"U+00E9", "B">>) >>,
      << Some(<<"a">>), Some(<<"2", "-", "b">>) >>,
      << Some(<<"C">>), Some(Repeat("A", 30)) >>,
      << Some(<<"C">>), Some(Repeat("A", 27) \o <<"B", "C", "D", "E">>) >>,
      << Some(<<"C">>), Some(Repeat("U+00E9", 16)) >>,
      << Some(<<"C">>), Some(Repeat("U+00E9", 13) \o Repeat("A", 5)) >> }

\* self when generate_source_pattern is entered
Entered(pattern_type, width, height, text) ==
    [ source_width |-> width,
      source_height |-> height,
      zoom_level |-> 10,
      view_x |-> 0,
      view_y |-> 0,
      pattern_type |-> pattern_type,
      source_pattern |-> None,
      primary_text |-> text[1],
      secondary_text |-> text[2] ]

GenInputs ==
    { Entered(k, size[1], size[2], <<None, None>>) : k \in PatternTypes, size \in GenSizes }
    \cup { Entered("Text", GenTextSize[1], GenTextSize[2], text) : text \in GenTexts }

\* let bytes_per_row = width * 4; let buffer_size = bytes_per_row * height;
\* let mut buffer = vec![0; buffer_size]
Allocated(self) ==
    [ stage |-> "allocated",
      width |-> self.source_width,
      height |-> self.source_height,
      bytes_per_row |-> self.source_width * 4,
      buffer |-> ZeroBuffer(self.source_width * 4 * self.source_height),
      panic |-> FALSE,
      overflow |-> FALSE ]

GenInit ==
    /\ overflow_checks \in BOOLEAN
    /\ \E self \in GenInputs :
          /\ renderer = Some(self)
          /\ gen = Allocated(self)
    /\ last_call = Call("generate_source_pattern", << >>)
    /\ outcome = "ok"
    /\ image = None
    /\ app = Launched

\* the state after a step of the call that gives the buffer and flags of r
Stepped(stage, r) ==
    /\ gen' = [gen EXCEPT !.stage = stage,
                          !.buffer = r.buffer,
                          !.panic = r.panic,
                          !.overflow = gen.overflow \/ r.overflow]
    /\ outcome' = IF r.panic \/ (r.overflow /\ overflow_checks) THEN "panic"
                  ELSE IF gen.overflow \/ r.overflow THEN "wrapped"
                  ELSE "ok"
    /\ UNCHANGED << renderer, overflow_checks, last_call, image, app >>

\* PatternType::Checkerboard => self.generate_checkerboard(..)
GenerateCheckerboard ==
    /\ Running
    /\ gen.stage = "allocated"
    /\ Self.pattern_type = "Checkerboard"
    /\ Stepped("based",
               [ buffer |-> generate_checkerboard(gen.buffer, gen.width, gen.height,
                                                  gen.bytes_per_row),
                 panic |-> FALSE, overflow |-> FALSE ])

\* PatternType::Gradient => self.generate_gradient(..)
GenerateGradient ==
    /\ Running
    /\ gen.stage = "allocated"
    /\ Self.pattern_type = "Gradient"
    /\ Stepped("based",
               [ buffer |-> generate_gradient(gen.buffer, gen.width, gen.height,
                                              gen.bytes_per_row),
                 panic |-> FALSE, overflow |-> FALSE ])

\* PatternType::Text => self.generate_text(..)
GenerateText ==
    /\ Running
    /\ gen.stage = "allocated"
    /\ Self.pattern_type = "Text"
    /\ Stepped("based", generate_text(Self, gen.buffer, gen.width, gen.height,
                                      gen.bytes_per_row))

\* self.add_debug_borders(&mut buffer, width, height, bytes_per_row)
AddDebugBorders ==
    /\ Running
    /\ gen.stage = "based"
    /\ LET bordered == add_debug_borders(gen.buffer, gen.width, gen.height,
                                         gen.bytes_per_row)
       IN  Stepped("bordered", [ buffer |-> bordered.buffer,
                                 panic |-> bordered.panic,
                                 overflow |-> FALSE ])

\* self.source_pattern = Some(SourcePattern { buffer, width, height, bytes_per_row })
StorePattern ==
    /\ Running
    /\ gen.stage = "bordered"
    /\ renderer' = Some([Self EXCEPT !.source_pattern =
                             Some([ buffer |-> gen.buffer,
                                    width |-> gen.width,
                                    height |-> gen.height,
                                    bytes_per_row |-> gen.bytes_per_row ])])
    /\ gen' = [gen EXCEPT !.stage = "stored"]
    /\ UNCHANGED << overflow_checks, last_call, outcome, image, app >>

GenNext ==
    \/ GenerateCheckerboard
    \/ GenerateGradient
    \/ GenerateText
    \/ AddDebugBorders
    \/ StorePattern

GenSpec == GenInit /\ [][GenNext]_vars

(***************************************************************************)
(* Properties of pattern generation (checked under GenSpec).               *)
(***************************************************************************)
\* the pixel (x, y) of the buffer being generated
GenPixel(x, y) == Pixel(gen.buffer, y * gen.width + x)

\* the overlays are stamped and the call goes on (or has stored the pattern)
Overlaid == gen.stage \in {"bordered", "stored"} /\ Running

Red == <<255, 0, 0, 255>>
Green == <<0, 255, 0, 255>>
Blue == <<0, 0, 255, 255>>
Yellow == <<255, 255, 0, 255>>

\* (x, y) lies within 3 pixels of an edge
InRing(x, y) ==
    \/ x < border_thickness
    \/ y < border_thickness
    \/ x >= gen.width - border_thickness
    \/ y >= gen.height - border_thickness

\* the corner boxes other than the red one, drawn when the side is longer
\* than a box
InTopRight(x, y) == gen.width > corner_size /\ x >= gen.width - corner_size /\ y < corner_size
InBottomLeft(x, y) == gen.height > corner_size /\ x < corner_size /\ y >= gen.height - corner_size
InBottomRight(x, y) ==
    /\ gen.width > corner_size /\ gen.height > corner_size
    /\ x >= gen.width - corner_size /\ y >= gen.height - corner_size

C13_OverlaySkipsWhatDoesNotFit ==
    gen.stage = "bordered" => ~gen.panic

\* C14: after generation of any kind on a buffer at least 30 wide and 30
\* high, each 15 x 15 corner block is one solid colour with alpha 255: red
\* top-left, green top-right, blue bottom-left, yellow bottom-right.
C14_CornerBlocksAreSolid ==
    (Overlaid /\ gen.width >= 30 /\ gen.height >= 30) =>
        \A x \in 0 .. (corner_size - 1), y \in 0 .. (corner_size - 1) :
            /\ GenPixel(x, y) = Red
            /\ GenPixel(gen.width - corner_size + x, y) = Green
            /\ GenPixel(x, gen.height - corner_size + y) = Blue
            /\ GenPixel(gen.width - corner_size + x, gen.height - corner_size + y) = Yellow

\* a 30 x 30 checkerboard is generated, the smallest size of the claim: the
\* four boxes meet in the middle and keep their colours
C14_Witness ==
    /\ gen.stage = "stored"
    /\ Self.pattern_type = "Checkerboard"
    /\ gen.width = 30 /\ gen.height = 30
    /\ GenPixel(14, 14) = Red
    /\ GenPixel(15, 14) = Green
    /\ GenPixel(14, 15) = Blue
    /\ GenPixel(15, 15) = Yellow

\* the base pattern of the given kind has been written, before the overlays
Based(kind) == gen.stage = "based" /\ Running /\ Self.pattern_type = kind

\* C15 as stated: for every width, height and in-range (x, y), the Gradient
\* pattern before overlay is (round(x/width*255), round(y/height*255), 200,
\* 255), red and green rounded to nearest.
C15_GradientIsRounded ==
    Based("Gradient") =>
        \A x \in 0 .. (gen.width - 1), y \in 0 .. (gen.height - 1) :
            GenPixel(x, y) = << Round(x * 255, gen.width), Round(y * 255, gen.height), 200, 255 >>

\* C15 amended: for every width, height and in-range (x, y), the Gradient
\* pattern before overlay is (floor(x/width*255), floor(y/height*255), 200,
\* 255): red and green are truncated, not rounded.
C15_GradientIsTruncated ==
    Based("Gradient") =>
        \A x \in 0 .. (gen.width - 1), y \in 0 .. (gen.height - 1) :
            /\ GenPixel(x, y)[1] * gen.width <= x * 255
            /\ x * 255 < (GenPixel(x, y)[1] + 1) * gen.width
            /\ GenPixel(x, y)[2] * gen.height <= y * 255
            /\ y * 255 < (GenPixel(x, y)[2] + 1) * gen.height
            /\ GenPixel(x, y)[3] = 200
            /\ GenPixel(x, y)[4] = 255

\* the 40 x 100 gradient before overlay: at (10, 25), a quarter of each side,
\* 63.75 is stored as 63
C15_Witness ==
    /\ Based("Gradient")
    /\ gen.width = 40 /\ gen.height = 100
    /\ GenPixel(10, 25) = <<63, 63, 200, 255>>
    /\ GenPixel(39, 99) = <<248, 252, 200, 255>>

\* C17: for every width, height and in-range (x, y), the Checkerboard pattern
\* before overlay is white (255,255,255,255) if (x div 20 + y div 20) is even
\* and black (0,0,0,255) otherwise.
C17_CheckerboardSquares ==
    Based("Checkerboard") =>
        \A x \in 0 .. (gen.width - 1), y \in 0 .. (gen.height - 1) :
            GenPixel(x, y) =
                IF \E k \in 0 .. (gen.width + gen.height) :
                       (x \div square_size) + (y \div square_size) = 2 * k
                THEN <<255, 255, 255, 255>>
                ELSE <<0, 0, 0, 255>>

\* the 40 x 100 checkerboard before overlay: squares of both colours on the
\* first row and the first column, and the last pixel in a black square
C17_Witness ==
    /\ Based("Checkerboard")
    /\ gen.width = 40 /\ gen.height = 100
    /\ GenPixel(19, 19) = <<255, 255, 255, 255>>
    /\ GenPixel(20, 19) = <<0, 0, 0, 255>>
    /\ GenPixel(19, 20) = <<0, 0, 0, 255>>
    /\ GenPixel(20, 20) = <<255, 255, 255, 255>>
    /\ GenPixel(39, 99) = <<0, 0, 0, 255>>

\* the secondary text of the Text pattern being generated, when there is one
SecondaryText == Unwrap(Self.secondary_text)

\* the buffer generate_text gives for self with the secondary text replaced
TextBufferWith(secondary) ==
    generate_text([Self EXCEPT !.secondary_text = Some(secondary)],
                  ZeroBuffer(BufferLen(gen.buffer)), gen.width, gen.height,
                  gen.bytes_per_row).buffer

\* a one-byte character
IsOneByte(c) == Utf8Len(c) = 1

\* s with a space in place of every lowercase character and of every
\* character outside the glyph table
Spaced(s) == [i \in 1 .. Len(s) |-> IF s[i] \in DOMAIN char_map THEN s[i] ELSE " "]

\* s with every lowercase letter in upper case, then a space in place of the
\* characters outside the glyph table
UpperSpaced(s) ==
    [i \in 1 .. Len(s) |->
        IF s[i] \in DOMAIN char_map THEN s[i]
        ELSE IF s[i] \in DOMAIN LowerToUpper /\ LowerToUpper[s[i]] \in DOMAIN char_map
             THEN LowerToUpper[s[i]]
             ELSE " "]

\* C18 as stated: in the Text pattern a lowercase character, or a character
\* outside the glyph table, at any position of the secondary text leaves no
\* ink in its cell: the generated buffer is the one generated with a space at
\* that position.
C18_LowercaseDrawsAsSpace ==
    (Based("Text") /\ IsSome(Self.secondary_text) /\ \A i \in 1 .. Len(SecondaryText) : IsOneByte(SecondaryText[i])) =>
        gen.buffer = TextBufferWith(Spaced(SecondaryText))

\* C18 amended: the secondary text is drawn in upper case: a lowercase letter
\* whose capital has a glyph is drawn as that capital, and a one-byte
\* character that has no glyph after upper-casing leaves no ink, as a space.
C18_SecondaryDrawnInUpperCase ==
    (Based("Text") /\ IsSome(Self.secondary_text) /\ \A i \in 1 .. Len(SecondaryText) : IsOneByte(SecondaryText[i])) =>
        gen.buffer = TextBufferWith(UpperSpaced(SecondaryText))

\* the Text pattern with the secondary text "a" on 170 x 130: the cell of the
\* "a" holds the ink of the glyph A (its middle bar), and the buffer is the
\* one generated for "A", not for " "
C18_Witness ==
    /\ Based("Text")
    /\ Self.secondary_text = Some(<<"a">>)
    /\ gen.width = 170 /\ gen.height = 130
    /\ GenPixel(76, 113) = <<20, 120, 20, 255>>
    /\ gen.buffer = TextBufferWith(<<"A">>)
    /\ gen.buffer # TextBufferWith(<<" ">>)

\* generate_text has run, or panicked, on a renderer with a secondary text
TextWithSecondary ==
    /\ gen.stage = "based"
    /\ Self.pattern_type = "Text"
    /\ IsSome(Self.secondary_text)

\* the first 27 characters and the ellipsis marker
FirstCharacters(s) == SubSeq(s, 1, 27) \o Ellipsis

\* C19: when the secondary text has more than 30 characters the Text pattern
\* draws its first 27 characters followed by the ellipsis marker, and when it
\* has 30 characters or fewer it draws the whole text; the length is counted
\* in characters.
C19_TruncatesByCharacters ==
    TextWithSecondary =>
        /\ ~gen.panic
        /\ display_text(SecondaryText) = IF Len(SecondaryText) > 30
                                         THEN FirstCharacters(SecondaryText)
                                         ELSE SecondaryText

(***************************************************************************)
(* ScenarioSpec: the renderer of the application, built by createGradient  *)
(* as ImageRenderer::new(PatternType::Gradient, 800, 600), then zoomed and *)
(* panned, and render's loop body run for single destination pixels.  The  *)
(* iterations of the loop are independent: each reads self and the source  *)
(* and writes its own destination pixel, so the iteration for (x, y) gives *)
(* the pixel render() stores there.  gen holds the locals of the           *)
(* iteration.                                                              *)
(***************************************************************************)
\* let width = 800; let height = 600
ScenarioSize == << 800, 600 >>

\* zoom levels set on the renderer, in tenths: 2.0 and 4.0
ScenarioZooms == { 20, 40 }

ScenarioPans == { <<0, 0>>, <<100, 60>> }

\* destination pixels (x, y) whose loop iteration is run
ScenarioPixels ==
    { <<400, 300>>, <<401, 301>>, <<0, 0>>, <<799, 599>>, <<799, 0>>, <<10, 10>>,
      <<790, 5>>, <<5, 590>>, <<300, 400>>, <<128, 64>> }

ScenarioInit ==
    /\ overflow_checks \in BOOLEAN
    /\ renderer = Some(new("Gradient", ScenarioSize[1], ScenarioSize[2]).self)
    /\ last_call = Call("new", <<"Gradient", ScenarioSize>>)
    /\ outcome = "ok"
    /\ image = None
    /\ app = Launched
    /\ gen = NoGen

\* the iteration of render's loop for the destination pixel d = (x, y)
RenderPixel(d) ==
    /\ Running
    /\ IsSome(renderer)
    /\ IsSome(Self.source_pattern)
    /\ gen = NoGen
    /\ d[1] < get_viewport_size(Self)[1]
    /\ d[2] < get_viewport_size(Self)[2]
    /\ LET source == Unwrap(Self.source_pattern)
           src_x_clamped == src_clamped(Self.view_x, Self.zoom_level, d[1], source.width)
           src_y_clamped == src_clamped(Self.view_y, Self.zoom_level, d[2], source.height)
       IN  gen' = [ stage |-> "render_loop",
                    viewport_width |-> get_viewport_size(Self)[1],
                    viewport_height |-> get_viewport_size(Self)[2],
                    x |-> d[1],
                    y |-> d[2],
                    src_x_clamped |-> src_x_clamped,
                    src_y_clamped |-> src_y_clamped,
                    pixel |-> copy_pixel(source, src_x_clamped, src_y_clamped) ]
    /\ last_call' = Call("render", TRUE)
    /\ UNCHANGED << renderer, overflow_checks, outcome, image, app >>

ScenarioNext ==
    \/ \E zoom \in ScenarioZooms : gen = NoGen /\ SetZoom(zoom)
    \/ \E pan \in ScenarioPans : gen = NoGen /\ SetPan(pan)
    \/ \E d \in ScenarioPixels : RenderPixel(d)

ScenarioSpec == ScenarioInit /\ [][ScenarioNext]_vars

(***************************************************************************)
(* Scenario A (checked under ScenarioSpec).                                *)
(***************************************************************************)
\* the loop body has run for the destination pixel (x, y) at this zoom (in
\* tenths) and pan
SampledAt(x, y, zoom, pan) ==
    /\ gen.stage = "render_loop"
    /\ gen.x = x /\ gen.y = y
    /\ Self.zoom_level = zoom
    /\ << Self.view_x, Self.view_y >> = pan

\* C16: with the 800 x 600 Gradient source, zoom 2.0 and pan (0, 0), the
\* viewport is 1600 x 1200 and the output pixel (400, 300) is the copy of the
\* source pixel (200, 150), whose colour is (63, 63, 200, 255).
C16_ScenarioA ==
    SampledAt(400, 300, 20, <<0, 0>>) =>
        /\ gen.viewport_width = 1600
        /\ gen.viewport_height = 1200
        /\ gen.src_x_clamped = 200
        /\ gen.src_y_clamped = 150
        /\ gen.pixel = SourcePixel(Self, 200, 150)
        /\ gen.pixel = <<63, 63, 200, 255>>

\* the scenario is reached: the 800 x 600 gradient at zoom 2.0 and pan (0, 0),
\* the loop body run for (400, 300)
C16_Witness ==
    /\ SampledAt(400, 300, 20, <<0, 0>>)
    /\ Self.pattern_type = "Gradient"
    /\ Self.source_width = 800 /\ Self.source_height = 600
    /\ BufferLen(Unwrap(Self.source_pattern).buffer) = 800 * 600 * 4
    /\ gen.pixel = <<63, 63, 200, 255>>

(***************************************************************************)
(* DrawSpec: one draw_text call on a zeroed buffer.  The initial state     *)
(* holds the arguments in gen; DrawText runs the call.  The buffer may be  *)
(* shorter than height rows (the last check of the loop body is against    *)
(* buffer.len()), and the origin may lie anywhere in the usize range.      *)
(***************************************************************************)
DrawTexts == { << >>, <<"A">>, <<"C", "O">>, <<"a", "1">> }

\* start_x and start_y
DrawOrigins == { 0, 2, 7, 20, UsizeMax - 3 }

\* (char_width, char_height, char_padding)
DrawCells == { <<5, 5, 0>>, <<10, 5, 1>>, <<4, 10, 0>>, <<7, 12, 2>> }

\* (width, height, pixels in the buffer)
DrawBuffers == { <<8, 8, 64>>, <<12, 6, 72>>, <<12, 6, 60>>, <<0, 0, 0>> }

DrawColors == { <<30, 30, 180>> }

DrawInit ==
    /\ overflow_checks \in BOOLEAN
    /\ renderer = None
    /\ \E text \in DrawTexts, start_x \in DrawOrigins, start_y \in DrawOrigins :
       \E cell \in DrawCells, buf \in DrawBuffers, color \in DrawColors :
          gen = [ stage |-> "draw_text",
                  buffer |-> ZeroBuffer(buf[3] * 4),
                  width |-> buf[1],
                  height |-> buf[2],
                  bytes_per_row |-> buf[1] * 4,
                  text |-> text,
                  start_x |-> start_x,
                  start_y |-> start_y,
                  char_width |-> cell[1],
                  char_height |-> cell[2],
                  char_padding |-> cell[3],
                  color |-> color,
                  overflow |-> FALSE ]
    /\ last_call = Call("none", 0)
    /\ outcome = "ok"
    /\ image = None
    /\ app = Launched

DrawText ==
    /\ Running
    /\ gen.stage = "draw_text"
    /\ LET drawn == draw_text(gen.buffer, gen.width, gen.height, gen.bytes_per_row,
                              gen.text, gen.start_x, gen.start_y, gen.char_width,
                              gen.char_height, gen.char_padding, gen.color)
       IN  /\ gen' = [gen EXCEPT !.stage = "drawn",
                                 !.buffer = drawn.buffer,
                                 !.overflow = drawn.overflow]
           /\ outcome' = IF drawn.overflow /\ overflow_checks THEN "panic"
                         ELSE IF drawn.overflow THEN "wrapped"
                         ELSE "ok"
    /\ last_call' = Call("draw_text", << gen.text, gen.start_x, gen.start_y >>)
    /\ UNCHANGED << renderer, overflow_checks, image, app >>

DrawNext == DrawText

DrawSpec == DrawInit /\ [][DrawNext]_vars

(***************************************************************************)
(* Properties of draw_text (checked under DrawSpec).                       *)
(***************************************************************************)
\* the pixel (x, y) lies in the block of an ink cell of the text, laid out
\* from the origin: character i at start_x + i * (char_width + char_padding),
\* cell (x_idx, y_idx) scaled by (char_width div 5, char_height div 5)
InInkBlock(x, y) ==
    \E i \in 0 .. (Len(gen.text) - 1), y_idx \in 0 .. 4, x_idx \in 0 .. 4 :
        LET scale_x == gen.char_width \div 5
            scale_y == gen.char_height \div 5
            left == gen.start_x + i * (gen.char_width + gen.char_padding) + x_idx * scale_x
            top == gen.start_y + y_idx * scale_y
        IN  /\ characters[GlyphIndex(gen.text[i + 1]) + 1][y_idx + 1][x_idx + 1] = 1
            /\ left <= x /\ x < left + scale_x
            /\ top <= y /\ y < top + scale_y

\* C20: for every text, origin, cell size, padding and buffer size, draw_text
\* does not fail, writes only pixels with x < width and y < height that lie in
\* an ink block, writes the colour with alpha 255 on each pixel it paints, and
\* leaves every other pixel unchanged.
C20_DrawTextClipsAndPaintsInkOnly ==
    gen.stage = "drawn" =>
        /\ outcome # "panic"
        /\ \A p \in 0 .. (Len(gen.buffer) - 1) :
              \/ Pixel(gen.buffer, p) = <<0, 0, 0, 0>>
              \/ /\ Pixel(gen.buffer, p) = << gen.color[1], gen.color[2], gen.color[3], 255 >>
                 /\ p \div gen.width < gen.height
                 /\ InInkBlock(p % gen.width, p \div gen.width)

(***************************************************************************)
(* Properties of the display (checked under AppSpec).                      *)
(***************************************************************************)
\* C21: when render() gives no image, the callback that asked for it leaves
\* the frame as it was: the stored decoded image and the image shown by the
\* image view are unchanged and nothing fails.  They change only in the step
\* that stores an image render() returned.
C21_FailedRenderKeepsFrame ==
    [][ /\ (app.pc[2] = "display" /\ image = None) =>
              /\ (app').decoded_image = app.decoded_image
              /\ (app').displayed = app.displayed
              /\ outcome' = outcome
        /\ ((app').decoded_image # app.decoded_image \/ (app').displayed # app.displayed) =>
              /\ app.pc[2] = "display"
              /\ IsSome(image)
              /\ (app').decoded_image = image
              /\ (app').displayed = image ]_vars

\* a callback has returned NO after a render() that gave no image, and the
\* image view still shows the image of an earlier render
C21_Witness ==
    /\ app.pc = AtRest
    /\ last_call = Call("render", FALSE)
    /\ image = None
    /\ app.returned = "NO"
    /\ IsSome(app.displayed)
    /\ app.decoded_image = app.displayed
    /\ outcome # "panic"

(***************************************************************************)
(* PanSpec: the mouse callbacks on the application after createGradient    *)
(* has built the renderer and displayed its first image.  app.callbacks    *)
(* counts the callbacks delivered from that point.                         *)
(***************************************************************************)
\* the renderer createGradient builds
Created == new("Gradient", AppWidth, AppHeight).self

PanInit ==
    /\ overflow_checks \in BOOLEAN
    /\ renderer = Some(Created)
    /\ last_call = Call("render", TRUE)
    /\ outcome = "ok"
    /\ image = render(Created, TRUE).image
    /\ app = [Launched EXCEPT !.decoded_image = render(Created, TRUE).image,
                              !.displayed = render(Created, TRUE).image,
                              !.returned = "YES"]
    /\ gen = NoGen

PanNext ==
    \/ \E location \in MouseLocations : mouseDown(location)
    \/ mouseDragged
    \/ mouseUp

PanSpec == PanInit /\ [][PanNext]_vars

(***************************************************************************)
(* Properties of panning (checked under PanSpec).                          *)
(***************************************************************************)
\* the pan of the renderer
Pan == << Self.view_x, Self.view_y >>

\* C22: a mouseDragged event changes the pan only while panning is active.
\* While it is active, a drag that moves the pointer by (dx, dy) from the last
\* recorded location sets the pan to (pan_x - dx, pan_y - dy), unclamped, and
\* changes nothing else of the renderer; the callback ends by recording the
\* pointer, so the pan after a sequence of drags is the initial pan minus the
\* sum of the deltas.  A drag while panning is inactive changes no state and
\* returns NO.  No other step changes the pan.
C22_DragMovesPanByDelta ==
    [][ /\ \A location \in MouseLocations :
              Dragged(location) =>
                  IF app.is_panning
                  THEN renderer' =
                          Some([Self EXCEPT
                                  !.view_x = @ - (location[1] - app.last_mouse_location[1]),
                                  !.view_y = @ - (location[2] - app.last_mouse_location[2])])
                  ELSE /\ renderer' = renderer
                       /\ (app').returned = "NO"
                       /\ (app').is_panning = app.is_panning
                       /\ (app').last_mouse_location = app.last_mouse_location
                       /\ (app').decoded_image = app.decoded_image
                       /\ (app').displayed = app.displayed
        /\ DraggedDisplay =>
              /\ (app').last_mouse_location = Unwrap(app.event)
              /\ (app').returned = "YES"
        /\ renderer' # renderer =>
              /\ (app').pc = << "mouseDragged", "mutated" >>
              /\ app.is_panning ]_vars

\* panning is active since a mouseDown at (0, 0) and a drag to (5, -3) has
\* called set_pan(-5, 3) on the renderer, whose pan was (0, 0)
C22_Witness ==
    /\ app.pc = << "mouseDragged", "mutated" >>
    /\ app.is_panning
    /\ app.last_mouse_location = <<0, 0>>
    /\ app.event = Some(<<5, -3>>)
    /\ last_call = Call("set_pan", <<-5, 3>>)
    /\ Pan = <<-5, 3>>

(***************************************************************************)
(* Failures of the Text pattern (checked under GenSpec).                   *)
(***************************************************************************)
\* C23: generating the Text pattern never fails on the secondary text: for
\* every secondary string, also one longer than 30 bytes that holds multi-byte
\* characters, the truncation to 27 bytes plus the ellipsis completes and
\* yields a valid text (the cut falls on a character boundary).
C23_TruncationNeverFails ==
    TextWithSecondary =>
        /\ StrLen(SecondaryText) > 30 => SliceIsCharBoundary(SecondaryText, 27)
        /\ ~gen.panic
        /\ (outcome = "panic") => gen.overflow

\* C24: generating the Text pattern completes for every primary text and
\* every buffer size: when the text is wider than the buffer or the buffer is
\* lower than the vertical offsets, no position computation leaves the usize
\* range, and the call goes on to clip the text.
C24_TextLayoutNeverUnderflows ==
    (gen.stage = "based" /\ Self.pattern_type = "Text") =>
        /\ ~gen.overflow
        /\ ~gen.panic => outcome = "ok"

(***************************************************************************)
(* Coherence of the cache (checked under Spec).                            *)
(***************************************************************************)
\* C25: in every state reached through new, set_zoom, set_pan, set_text and
\* change_pattern_type in any order, the cached source buffer is the
\* generator's output for the current kind, dimensions, primary text and
\* secondary text, and for nothing else: texts stored while the kind was
\* Checkerboard or Gradient are the texts drawn once the kind is Text.
C25_CacheIsGeneratorOutputOfCurrentInputs ==
    (IsSome(renderer) /\ Running) =>
        /\ PatternInput(Self) \in PatternInputs
        /\ Self.source_pattern = Some(PatternTable[PatternInput(Self)].source_pattern)

\* the text "A" was stored by an earlier set_text, then
\* change_pattern_type(Text) returned: the cache is the Text pattern drawn
\* with "A", which is not the pattern of the default text
C25_Witness ==
    /\ IsSome(renderer)
    /\ last_call = Call("change_pattern_type", "Text")
    /\ outcome = "ok"
    /\ Self.primary_text = Some(<<"A">>)
    /\ Self.source_pattern = Some(GeneratePattern(PatternInput(Self)).source_pattern)
    /\ Self.source_pattern # Some(GeneratePattern([PatternInput(Self) EXCEPT !.primary_text = None]).source_pattern)
    /\ SourcePixel(Self, 20, 18) = <<30, 30, 180, 255>>

(***************************************************************************)
(* Frame of change_pattern_type (checked under AppSpec).                   *)
(***************************************************************************)
\* C26: change_pattern_type leaves zoom, pan, primary text, secondary text
\* and the source dimensions as they were, so a pattern button pressed when a
\* renderer exists keeps the current zoom and pan, and the render that
\* follows uses them.
C26_ChangePatternTypeKeepsView ==
    [][ /\ ((last_call').op = "change_pattern_type" /\ outcome' # "panic" /\ IsSome(renderer)) =>
              /\ Unwrap(renderer').pattern_type = (last_call').arg
              /\ Unwrap(renderer').zoom_level = Self.zoom_level
              /\ Unwrap(renderer').view_x = Self.view_x
              /\ Unwrap(renderer').view_y = Self.view_y
              /\ Unwrap(renderer').primary_text = Self.primary_text
              /\ Unwrap(renderer').secondary_text = Self.secondary_text
              /\ Unwrap(renderer').source_width = Self.source_width
              /\ Unwrap(renderer').source_height = Self.source_height
        /\ ((last_call').op = "render" /\ last_call.op = "change_pattern_type" /\ IsSome(image')) =>
              /\ renderer' = renderer
              /\ Unwrap(image').width = F64AsUsize(Self.source_width * Self.zoom_level, 10)
              /\ Unwrap(image').height = F64AsUsize(Self.source_height * Self.zoom_level, 10) ]_vars

\* the slider was set to 0.2, then the Checkerboard button was pressed on the
\* existing renderer: the kind changed, the zoom is still 0.2 and the image
\* just rendered has the zoomed size
C26_Witness ==
    /\ app.pc = << "createCheckerboard", "display" >>
    /\ Self.pattern_type = "Checkerboard"
    /\ Self.zoom_level = 2
    /\ IsSome(image)
    /\ Unwrap(image).width = 79
    /\ Unwrap(image).height = 16

(***************************************************************************)
(* Properties of openFile (checked under AppSpec).                         *)
(***************************************************************************)
\* C27: after a successful file pick the renderer has kind Text, primary
\* text "COMING SOON", the name of the picked file as secondary text, and a
\* cache equal to the Text pattern of those texts, whether the pick created
\* the renderer or found one; a renderer that existed keeps its zoom and pan,
\* and no renderer is created once one exists.
C27_PickShowsComingSoonWithFileName ==
    [][ /\ \A pick \in Picks :
              (pick # None /\ PickFile(pick) /\ outcome' # "panic") =>
                  /\ IsSome(renderer')
                  /\ Unwrap(renderer').pattern_type = "Text"
                  /\ Unwrap(renderer').primary_text = Some(ComingSoon)
                  /\ Unwrap(renderer').secondary_text = Some(LastComponent(Unwrap(pick)))
                  /\ Unwrap(renderer').source_pattern =
                        Some(PatternTable[PatternInput(Unwrap(renderer'))].source_pattern)
                  /\ IsSome(renderer) =>
                        /\ Unwrap(renderer').zoom_level = Self.zoom_level
                        /\ Unwrap(renderer').view_x = Self.view_x
                        /\ Unwrap(renderer').view_y = Self.view_y
        /\ IsSome(renderer) =>
              /\ IsSome(renderer')
              /\ (last_call').op = "new" => last_call' = last_call
              /\ Unwrap(renderer').source_width = Self.source_width
              /\ Unwrap(renderer').source_height = Self.source_height ]_vars

\* the file /t/a.jp2 was picked when a renderer zoomed to 0.2 existed: the
\* renderer is still zoomed to 0.2 and holds the Text pattern of
\* "COMING SOON" and "a.jp2"
C27_Witness ==
    /\ app.pc = << "openFile", "mutated" >>
    /\ app.callbacks = 3
    /\ Self.zoom_level = 2
    /\ Self.pattern_type = "Text"
    /\ Self.primary_text = Some(ComingSoon)
    /\ Self.secondary_text = Some(<<"a", ".", "j", "p", "2">>)
    /\ Self.source_pattern = Some(GeneratePattern(PatternInput(Self)).source_pattern)

(***************************************************************************)
(* The renderer's Mutex (checked under AppSpec).                           *)
(***************************************************************************)
\* C28: a callback holds the renderer lock exactly between an acquisition and
\* the end of the block that acquired it; the lock is free whenever no
\* callback is running and whenever a callback is about to acquire it, so the
\* acquisition goes through and no callback waits on a lock it holds itself.
C28_LockIsFreeWhenAcquiredAndAtRest ==
    /\ app.lock \in {"free", "held"}
    /\ app.lock = "held" <=> app.pc[2] \in {"mutated", "display"}
    /\ app.pc = AtRest => app.lock = "free"
    /\ app.pc[2] = "render" => app.lock = "free"

\* zoomChanged has acquired the lock twice, for set_zoom(0.2) and for
\* render(), and has returned YES: the lock is free again
C28_Witness ==
    /\ app.pc = AtRest
    /\ app.callbacks = 2
    /\ app.lock = "free"
    /\ app.returned = "YES"
    /\ last_call = Call("render", TRUE)
    /\ IsSome(renderer)
    /\ Self.zoom_level = 2
    /\ app.displayed = image
    /\ IsSome(image)

====
